---- MODULE Spec2Model ----
(***************************************************************************)
(* Payment orchestration of smartmeal-school: the Express/Prisma backend   *)
(* handlers OrderController.initiatePayment, MpesaController.handleCallback *)
(* and MpesaController.checkPaymentStatus, the gateway they talk to, and    *)
(* the client hook's cancelPayment.  Every `await` of a handler is a step   *)
(* boundary, so concurrent requests interleave exactly where Node lets      *)
(* them interleave.                                                         *)
(*                                                                         *)
(* Spec        the backend handlers of two orders and the hook's cancel    *)
(* SpecMonitor the payment page of one order with the hook's status monitor *)
(* SpecPoller  one order polled for ever, under fairness, without callbacks *)
(* SpecToken   MpesaService.getAccessToken and its cache, with a clock      *)
(* SpecGateway MpesaService.makeRequest with its retries                    *)
(* SpecPayload the phone number, Timestamp and Password of a gateway request *)
(***************************************************************************)
EXTENDS Integers, Sequences, FiniteSets, TLC

VARIABLES
    order,        \* Order rows: payment columns of each order
    ptx,          \* PaymentTransaction rows, one per order at most (orderId unique)
    gwPush,       \* gateway: the STK pushes it accepted, in order of acceptance
    pc,           \* position of each request handler
    loc,          \* local variables of each request handler
    resp,         \* HTTP response written by each request handler
    nreq,         \* number of requests received so far
    paymentState, \* client hook state (useMpesaPayment) of the payment page of ClientOrder
    cancelledIds, \* merchant ids of the attempts whose user pressed cancel while Processing
    monitor,      \* startPaymentMonitoring of the hook: its interval, its attempts counter
                  \* and the handlers of the status requests it is awaiting
    accessToken,  \* MpesaService.accessToken: the cached bearer token, NoToken for null
    tokenExpiry,  \* MpesaService.tokenExpiry: the recorded expiry, NoExpiry for null
    now,          \* the clock, in units of five minutes
    issued,       \* gateway: the actual expiry of every token it has issued
    tk,           \* the callers of getAccessToken
    rq,           \* the callers of makeRequest
    pl            \* the gateway request a service is building, and the wall clock in seconds

vars == <<order, ptx, gwPush, pc, loc, resp, nreq, paymentState, cancelledIds, monitor,
          accessToken, tokenExpiry, now, issued, tk, rq, pl>>

----------------------------------------------------------------------------
(* Bounds *)

MaxPush == 2
MaxRequests == 4
MaxAttempts == 3
MaxTokens == 2
MaxClock == 14
MaxSeconds == 2

Orders == {"o1", "o2"}
UnknownOrder == "o9"
ClientOrder == "o1"
Procs == {1, 2}

----------------------------------------------------------------------------
(* Values *)

Null == "null"
Undefined == "undefined"
NoCode == -1

MerchantId(n) == "m" \o ToString(n)
CheckoutId(n) == "ws_CO_" \o ToString(n)

PushNums == 1..MaxPush

ResultCodeSuccess == 0
ResultCodeAwaiting == 1032

NoItems == << >>

ItemLists ==
    { << [Name |-> "TransactionID", Value |-> "ABC123"],
         [Name |-> "Amount", Value |-> "330"],
         [Name |-> "PhoneNumber", Value |-> "254712345678"] >>,
      << [Name |-> "Amount", Value |-> "330"],
         [Name |-> "MpesaReceiptNumber", Value |-> "NLJ7RT61SV"],
         [Name |-> "PhoneNumber", Value |-> "254712345678"] >>,
      << [Name |-> "PhoneNumber", Value |-> "254712345678"],
         [Name |-> "TransactionID", Value |-> "XYZ789"] >> }

StkCallbacks ==
    { [MerchantRequestID |-> m, CheckoutRequestID |-> c, ResultCode |-> ResultCodeSuccess,
       ResultDesc |-> "The service request is processed successfully.", Item |-> it] :
         m \in {Undefined}, c \in {Undefined}, it \in {NoItems} }
    \cup
    { [MerchantRequestID |-> MerchantId(n), CheckoutRequestID |-> CheckoutId(n),
       ResultCode |-> ResultCodeSuccess,
       ResultDesc |-> "The service request is processed successfully.", Item |-> it] :
         n \in PushNums, it \in ItemLists }
    \cup
    { [MerchantRequestID |-> MerchantId(n), CheckoutRequestID |-> CheckoutId(n),
       ResultCode |-> rc[1], ResultDesc |-> rc[2], Item |-> NoItems] :
         n \in PushNums,
         rc \in { <<1, "The balance is insufficient for the transaction.">> } }

NoStk == [MerchantRequestID |-> Null, CheckoutRequestID |-> Null, ResultCode |-> NoCode,
          ResultDesc |-> Null, Item |-> NoItems]

\* req.body of a callback: hasBody / hasStk say which parts of the envelope are present
Payloads ==
    { [hasBody |-> TRUE, hasStk |-> TRUE, stk |-> s] : s \in StkCallbacks }
    \cup { [hasBody |-> FALSE, hasStk |-> FALSE, stk |-> NoStk],
           [hasBody |-> TRUE, hasStk |-> FALSE, stk |-> NoStk] }

NoPayload == [hasBody |-> FALSE, hasStk |-> FALSE, stk |-> NoStk]

NoResult == [merchantRequestId |-> Null, checkoutRequestId |-> Null, resultCode |-> NoCode,
             resultDesc |-> Null, success |-> FALSE, transactionId |-> Null,
             mpesaReceiptNumber |-> Null]

NoOrderRow == [paymentStatus |-> "PENDING", transactionId |-> Null,
               mpesaRequestId |-> Null, checkoutRequestId |-> Null]

NoTx == [status |-> "NONE", transactionId |-> Null, mpesaRequestId |-> Null,
         checkoutRequestId |-> Null, resultCode |-> NoCode, resultDesc |-> Null,
         callbackData |-> NoPayload]

\* statusData.ResultCode before any status query has answered
NoQueryCode == [num |-> NoCode, isString |-> FALSE]

NoLoc == [kind |-> "none", orderId |-> Null, hadTx |-> FALSE, payload |-> NoPayload,
          result |-> NoResult, stk |-> 0, newStatus |-> Null, queryCode |-> NoQueryCode,
          query |-> "none"]

NoResp == [status |-> 0, ResultCode |-> NoCode, paymentStatus |-> Null]

HttpResp(s) == [status |-> s, ResultCode |-> NoCode, paymentStatus |-> Null]
AckResp(s, c) == [status |-> s, ResultCode |-> c, paymentStatus |-> Null]
StatusResp(ps) == [status |-> 200, ResultCode |-> NoCode, paymentStatus |-> ps]

HasTx(o) == ptx[o].status # "NONE"

NoToken == 0
NoExpiry == -1

\* a caller of getAccessToken: its position, the token the gateway issued for its
\* request, and what the call returned
NoTk == [pc |-> "idle", tok |-> NoToken, result |-> NoToken, threw |-> FALSE]

\* a caller of makeRequest: its position, retryCount, the HTTP status of the last answer
\* (0 when the error had no response), the backoff delay in seconds, the message of the
\* error it threw, and the number of its posts that the gateway processed and accepted
NoRq == [pc |-> "idle", retryCount |-> 0, lastStatus |-> NoCode, delay |-> 0, error |-> Null,
         accepted |-> 0]

\* Buffer.from(`${shortcode}${passkey}${timestamp}`).toString('base64'): the encoding
\* is one-to-one, so a password is tagged with the text it encodes
Base64(text) == [base64 |-> text]

\* the request being built: the service and the call, the phone number given, the fields
\* of the payload and the clock
NoPhone == << >>
NoTimestamp == -1
NoPassword == Base64(<< >>)

NoPl == [pc |-> "idle", service |-> Null, call |-> Null, phoneNumber |-> NoPhone,
         PartyA |-> NoPhone, PhoneNumber |-> NoPhone,
         Timestamp |-> NoTimestamp, Password |-> NoPassword, clock |-> 0]

----------------------------------------------------------------------------
(* Initial state: the orders exist, unpaid (createOrder), nothing in flight *)

Init ==
    /\ order = [o \in Orders |-> NoOrderRow]
    /\ ptx = [o \in Orders |-> NoTx]
    /\ gwPush = << >>
    /\ pc = [p \in Procs |-> "idle"]
    /\ loc = [p \in Procs |-> NoLoc]
    /\ resp = [p \in Procs |-> NoResp]
    /\ nreq = 0
    /\ paymentState = [status |-> "idle", error |-> Null]
    /\ cancelledIds = {}
    /\ monitor = [active |-> FALSE, attempts |-> 0, waiting |-> {}]
    /\ accessToken = NoToken
    /\ tokenExpiry = NoExpiry
    /\ now = 0
    /\ issued = << >>
    /\ tk = [c \in Procs |-> NoTk]
    /\ rq = [c \in Procs |-> NoRq]
    /\ pl = NoPl

Done(p, r) ==
    /\ pc' = [pc EXCEPT ![p] = "done"]
    /\ resp' = [resp EXCEPT ![p] = r]

Goto(p, l) ==
    /\ pc' = [pc EXCEPT ![p] = l]
    /\ UNCHANGED resp

ClientUnchanged == UNCHANGED <<paymentState, cancelledIds, monitor>>

ServiceUnchanged == UNCHANGED <<accessToken, tokenExpiry, now, issued, tk, rq>>

BackendUnchanged == UNCHANGED <<order, ptx, gwPush, pc, loc, resp, nreq>>

PayloadUnchanged == UNCHANGED pl

----------------------------------------------------------------------------
(* OrderController.initiatePayment *)

\* findUnique and the three early returns
InitFind(p, oid) ==
    /\ pc[p] = "idle"
    /\ nreq < MaxRequests
    /\ nreq' = nreq + 1
    /\ loc' = [loc EXCEPT ![p] = [NoLoc EXCEPT !.kind = "initiate", !.orderId = oid]]
    /\ IF oid \notin Orders THEN Done(p, HttpResp(404))
       ELSE IF order[oid].paymentStatus = "COMPLETED" THEN Done(p, HttpResp(400))
       ELSE IF order[oid].paymentStatus = "PROCESSING" THEN Done(p, HttpResp(400))
       ELSE Goto(p, "init_mark")
    /\ UNCHANGED <<order, ptx, gwPush>>
    /\ ClientUnchanged
    /\ ServiceUnchanged
    /\ PayloadUnchanged

\* variant of InitMark that also creates the PaymentTransaction row, before the gateway
\* has been called
InitMark_CreatesTx(p) ==
    /\ pc[p] = "init_mark"
    /\ order' = [order EXCEPT ![loc[p].orderId].paymentStatus = "PROCESSING"]
    /\ ptx' = [ptx EXCEPT ![loc[p].orderId] = [NoTx EXCEPT !.status = "PROCESSING"]]
    /\ Goto(p, "init_stk")
    /\ UNCHANGED <<gwPush, loc, nreq>>
    /\ ClientUnchanged
    /\ ServiceUnchanged
    /\ PayloadUnchanged

\* order.update paymentStatus PROCESSING, before the gateway is called
InitMark(p) ==
    /\ pc[p] = "init_mark"
    /\ order' = [order EXCEPT ![loc[p].orderId].paymentStatus = "PROCESSING"]
    /\ Goto(p, "init_stk")
    /\ UNCHANGED <<ptx, gwPush, loc, nreq>>
    /\ ClientUnchanged
    /\ ServiceUnchanged
    /\ PayloadUnchanged

\* mpesaService.initiateStkPush: accepted with a fresh id pair, or rejected / failed
InitStk(p) ==
    /\ pc[p] = "init_stk"
    /\ \/ /\ Len(gwPush) < MaxPush
          /\ gwPush' = Append(gwPush, loc[p].orderId)
          /\ loc' = [loc EXCEPT ![p].stk = Len(gwPush) + 1]
          /\ Goto(p, "init_stamp")
       \/ /\ UNCHANGED <<gwPush, loc>>
          /\ Goto(p, "init_revert")
    /\ UNCHANGED <<order, ptx, nreq>>
    /\ ClientUnchanged
    /\ ServiceUnchanged
    /\ PayloadUnchanged

\* variant of InitRevert that answers 400 and leaves the order as InitMark marked it
InitRevert_KeepsProcessing(p) ==
    /\ pc[p] = "init_revert"
    /\ Done(p, HttpResp(400))
    /\ UNCHANGED <<order, ptx, gwPush, loc, nreq>>
    /\ ClientUnchanged
    /\ ServiceUnchanged
    /\ PayloadUnchanged

\* stkResult.success false: revert to PENDING and answer 400
InitRevert(p) ==
    /\ pc[p] = "init_revert"
    /\ order' = [order EXCEPT ![loc[p].orderId].paymentStatus = "PENDING"]
    /\ Done(p, HttpResp(400))
    /\ UNCHANGED <<ptx, gwPush, loc, nreq>>
    /\ ClientUnchanged
    /\ ServiceUnchanged
    /\ PayloadUnchanged

\* order.update with the gateway's MerchantRequestID / CheckoutRequestID
InitStamp(p) ==
    /\ pc[p] = "init_stamp"
    /\ order' = [order EXCEPT ![loc[p].orderId].mpesaRequestId = MerchantId(loc[p].stk),
                              ![loc[p].orderId].checkoutRequestId = CheckoutId(loc[p].stk)]
    /\ Goto(p, "init_create")
    /\ UNCHANGED <<ptx, gwPush, loc, nreq>>
    /\ ClientUnchanged
    /\ ServiceUnchanged
    /\ PayloadUnchanged

\* paymentTransaction.create; orderId is unique, so a second row for the order throws
InitCreate(p) ==
    /\ pc[p] = "init_create"
    /\ IF HasTx(loc[p].orderId)
       THEN /\ UNCHANGED ptx
            /\ Done(p, HttpResp(500))
       ELSE /\ ptx' = [ptx EXCEPT ![loc[p].orderId] =
                          [NoTx EXCEPT !.status = "PROCESSING",
                                       !.transactionId = CheckoutId(loc[p].stk),
                                       !.mpesaRequestId = MerchantId(loc[p].stk),
                                       !.checkoutRequestId = CheckoutId(loc[p].stk)]]
            /\ Done(p, HttpResp(200))
    /\ UNCHANGED <<order, gwPush, loc, nreq>>
    /\ ClientUnchanged
    /\ ServiceUnchanged
    /\ PayloadUnchanged

\* a database call of initiatePayment rejects: the catch block answers 500
InitThrow(p) ==
    /\ pc[p] \in {"init_mark", "init_revert", "init_stamp", "init_create"}
    /\ Done(p, HttpResp(500))
    /\ UNCHANGED <<order, ptx, gwPush, loc, nreq>>
    /\ ClientUnchanged
    /\ ServiceUnchanged
    /\ PayloadUnchanged

----------------------------------------------------------------------------
(* MpesaService.processCallback *)

\* the forEach over CallbackMetadata.Item: items are matched by name, later items overwrite
RECURSIVE ExtractItems(_, _)
ExtractItems(items, result) ==
    IF items = << >> THEN result
    ELSE LET item == Head(items)
             r == IF item.Name = "TransactionID"
                    THEN [result EXCEPT !.transactionId = item.Value]
                  ELSE IF item.Name = "MpesaReceiptNumber"
                    THEN [result EXCEPT !.mpesaReceiptNumber = item.Value]
                  ELSE result
         IN ExtractItems(Tail(items), r)

processCallback(payload) ==
    LET stk == payload.stk
        result == [merchantRequestId |-> stk.MerchantRequestID,
                   checkoutRequestId |-> stk.CheckoutRequestID,
                   resultCode |-> stk.ResultCode,
                   resultDesc |-> stk.ResultDesc,
                   success |-> (stk.ResultCode = 0),
                   transactionId |-> Null,
                   mpesaReceiptNumber |-> Null]
    IN IF stk.ResultCode = 0 /\ stk.Item # NoItems
       THEN ExtractItems(stk.Item, result)
       ELSE result

\* the guard at the top of handleCallback
\* variant of the guard that tests Body only
StructurallyValid_BodyOnly(payload) == payload.hasBody

StructurallyValid(payload) == payload.hasBody /\ payload.hasStk

----------------------------------------------------------------------------
(* MpesaController.handleCallback *)

\* prisma.order.findFirst({ where: { mpesaRequestId } }): an undefined filter value
\* is no filter at all, so the first order row is returned
FirstOrder == CHOOSE o \in Orders : \A o2 \in Orders : o = o2 \/ o = "o1"

FindFirst(mid) ==
    IF mid = Undefined THEN {FirstOrder}
    ELSE {o \in Orders : order[o].mpesaRequestId = mid}

\* validation and processCallback run synchronously when the request arrives
CbReceive(p, payload) ==
    /\ pc[p] = "idle"
    /\ nreq < MaxRequests
    /\ nreq' = nreq + 1
    /\ IF ~StructurallyValid(payload)
       THEN /\ loc' = [loc EXCEPT ![p] = [NoLoc EXCEPT !.kind = "callback", !.payload = payload]]
            /\ Done(p, AckResp(400, 1))
       ELSE /\ loc' = [loc EXCEPT ![p] = [NoLoc EXCEPT !.kind = "callback", !.payload = payload,
                                                       !.result = processCallback(payload)]]
            /\ Goto(p, "cb_find")
    /\ UNCHANGED <<order, ptx, gwPush>>
    /\ ClientUnchanged
    /\ ServiceUnchanged
    /\ PayloadUnchanged

\* the lookup by merchant request id, with the row's paymentTransaction included
CbFind(p) ==
    /\ pc[p] = "cb_find"
    /\ LET found == FindFirst(loc[p].result.merchantRequestId)
       IN IF found = {}
          THEN /\ Done(p, AckResp(404, 1))
               /\ UNCHANGED loc
          ELSE LET o == CHOOSE x \in found : TRUE
               IN /\ loc' = [loc EXCEPT ![p].orderId = o, ![p].hadTx = HasTx(o)]
                  /\ Goto(p, "cb_tx")
    /\ UNCHANGED <<order, ptx, gwPush, nreq>>
    /\ ClientUnchanged
    /\ ServiceUnchanged
    /\ PayloadUnchanged

\* transactionId is unique among PaymentTransaction rows
TxIdTaken(o, tid) == \E o2 \in Orders \ {o} : HasTx(o2) /\ ptx[o2].transactionId = tid

\* the row the callback writes when the order had a paymentTransaction at lookup time
CbUpdatedTx(o, payload, result) ==
    [ptx[o] EXCEPT !.status = IF result.success THEN "COMPLETED" ELSE "FAILED",
                   !.resultCode = result.resultCode,
                   !.resultDesc = result.resultDesc,
                   !.callbackData = payload,
                   !.transactionId = IF result.success /\ result.transactionId # Null
                                     THEN result.transactionId ELSE @]

\* the row the callback creates when the order had none at lookup time
CbCreatedTx(payload, result) ==
    [status |-> IF result.success THEN "COMPLETED" ELSE "FAILED",
     transactionId |-> IF result.transactionId # Null THEN result.transactionId
                       ELSE result.checkoutRequestId,
     mpesaRequestId |-> IF result.merchantRequestId = Undefined THEN Null
                        ELSE result.merchantRequestId,
     checkoutRequestId |-> IF result.checkoutRequestId = Undefined THEN Null
                           ELSE result.checkoutRequestId,
     resultCode |-> result.resultCode,
     resultDesc |-> result.resultDesc,
     callbackData |-> payload]

CbUpdatedOrder(o, result) ==
    [order[o] EXCEPT !.paymentStatus = IF result.success THEN "COMPLETED" ELSE "FAILED",
                     !.transactionId = IF result.success /\ result.transactionId # Null
                                       THEN result.transactionId ELSE @]

\* the database rejects the transaction and rolls it back
CbTxRejected(o, hadTx, payload, result) ==
    IF hadTx
    THEN TxIdTaken(o, CbUpdatedTx(o, payload, result).transactionId)
    ELSE \/ HasTx(o)
         \/ CbCreatedTx(payload, result).transactionId = Undefined
         \/ TxIdTaken(o, CbCreatedTx(payload, result).transactionId)

\* prisma.$transaction: order.update, then paymentTransaction.update or create, then the ack
CbTx(p) ==
    /\ pc[p] = "cb_tx"
    /\ LET o == loc[p].orderId
           payload == loc[p].payload
           result == loc[p].result
       IN IF CbTxRejected(o, loc[p].hadTx, payload, result)
          THEN /\ UNCHANGED <<order, ptx>>
               /\ Done(p, AckResp(500, 1))
          ELSE /\ order' = [order EXCEPT ![o] = CbUpdatedOrder(o, result)]
               /\ ptx' = [ptx EXCEPT ![o] = IF loc[p].hadTx
                                             THEN CbUpdatedTx(o, payload, result)
                                             ELSE CbCreatedTx(payload, result)]
               /\ Done(p, AckResp(200, 0))
    /\ UNCHANGED <<gwPush, loc, nreq>>
    /\ ClientUnchanged
    /\ ServiceUnchanged
    /\ PayloadUnchanged

\* the lookup or the transaction throws: the catch block answers 500
CbThrow(p) ==
    /\ pc[p] \in {"cb_find", "cb_tx"}
    /\ Done(p, AckResp(500, 1))
    /\ UNCHANGED <<order, ptx, gwPush, loc, nreq>>
    /\ ClientUnchanged
    /\ ServiceUnchanged
    /\ PayloadUnchanged

----------------------------------------------------------------------------
(* MpesaController.checkPaymentStatus *)

\* ResultCode as it arrives in the gateway's JSON: a number or a string of digits
QueryCodes == {[num |-> c, isString |-> s] :
                 c \in {ResultCodeSuccess, ResultCodeAwaiting, 1},
                 s \in BOOLEAN}

\* JavaScript's === against a number literal
StrictEq(v, n) == ~v.isString /\ v.num = n

\* the status the poll decides to write, Null for none
PollClassify(code) ==
    IF StrictEq(code, 0) THEN "COMPLETED"
    ELSE IF ~StrictEq(code, 1032) THEN "FAILED"
    ELSE Null

\* findUnique and the early returns
PollLookup(p, oid) ==
    /\ pc[p] = "idle"
    /\ loc' = [loc EXCEPT ![p] = [NoLoc EXCEPT !.kind = "poll", !.orderId = oid]]
    /\ IF oid \notin Orders THEN Done(p, HttpResp(404))
       ELSE IF order[oid].paymentStatus \in {"COMPLETED", "FAILED"}
            THEN Done(p, StatusResp(order[oid].paymentStatus))
       ELSE IF order[oid].paymentStatus = "PROCESSING" /\ order[oid].checkoutRequestId # Null
            THEN Goto(p, "poll_query")
       ELSE Goto(p, "poll_read")
    /\ UNCHANGED <<order, ptx, gwPush>>

\* a status request, counted among the requests received
PollRequest(p, oid) ==
    /\ nreq < MaxRequests
    /\ nreq' = nreq + 1
    /\ PollLookup(p, oid)

\* a status request of a poller that keeps polling for as long as it runs
PollerFind(p, oid) ==
    /\ PollLookup(p, oid)
    /\ UNCHANGED nreq
    /\ ClientUnchanged
    /\ ServiceUnchanged
    /\ PayloadUnchanged

\* a status request from any caller other than the hook's monitor
PollFind(p, oid) ==
    /\ PollRequest(p, oid)
    /\ ClientUnchanged
    /\ ServiceUnchanged
    /\ PayloadUnchanged

\* mpesaService.checkStkPushStatus with a failing query written to the order as FAILED
PollQuery_FailureFails(p) ==
    /\ pc[p] = "poll_query"
    /\ \/ /\ Goto(p, "poll_write")
          /\ loc' = [loc EXCEPT ![p].query = "failed", ![p].newStatus = "FAILED"]
       \/ \E code \in QueryCodes :
            /\ loc' = [loc EXCEPT ![p].newStatus = PollClassify(code), ![p].queryCode = code,
                                  ![p].query = "answered"]
            /\ IF PollClassify(code) = Null
               THEN Goto(p, "poll_read")
               ELSE Goto(p, "poll_write")
    /\ UNCHANGED <<order, ptx, gwPush, nreq>>
    /\ ClientUnchanged
    /\ ServiceUnchanged
    /\ PayloadUnchanged

\* mpesaService.checkStkPushStatus: the query fails (success: false), or answers with a
\* result code (success: true)
PollQuery(p) ==
    /\ pc[p] = "poll_query"
    /\ \/ /\ Goto(p, "poll_read")
          /\ loc' = [loc EXCEPT ![p].query = "failed"]
       \/ \E code \in QueryCodes :
            /\ loc' = [loc EXCEPT ![p].newStatus = PollClassify(code), ![p].queryCode = code,
                                  ![p].query = "answered"]
            /\ IF PollClassify(code) = Null
               THEN Goto(p, "poll_read")
               ELSE Goto(p, "poll_write")
    /\ UNCHANGED <<order, ptx, gwPush, nreq>>
    /\ ClientUnchanged
    /\ ServiceUnchanged
    /\ PayloadUnchanged

\* the gateway answers the status query with a code the handler acts on
PollQueryResolved(p) == PollQuery(p) /\ pc'[p] = "poll_write"

\* prisma.order.update({ data: { paymentStatus } })
PollWrite(p) ==
    /\ pc[p] = "poll_write"
    /\ order' = [order EXCEPT ![loc[p].orderId].paymentStatus = loc[p].newStatus]
    /\ Goto(p, "poll_read")
    /\ UNCHANGED <<ptx, gwPush, loc, nreq>>
    /\ ClientUnchanged
    /\ ServiceUnchanged
    /\ PayloadUnchanged

\* the final findUnique and the response
PollRead(p) ==
    /\ pc[p] = "poll_read"
    /\ Done(p, StatusResp(order[loc[p].orderId].paymentStatus))
    /\ UNCHANGED <<order, ptx, gwPush, loc, nreq>>
    /\ ClientUnchanged
    /\ ServiceUnchanged
    /\ PayloadUnchanged

PollThrow(p) ==
    /\ pc[p] \in {"poll_write", "poll_read"}
    /\ Done(p, HttpResp(500))
    /\ UNCHANGED <<order, ptx, gwPush, loc, nreq>>
    /\ ClientUnchanged
    /\ ServiceUnchanged
    /\ PayloadUnchanged

----------------------------------------------------------------------------
(* useMpesaPayment: the client hook of the payment page *)

CancelledByUser == "Payment cancelled by user"

\* hook initiatePayment: the initiate request of the page's order was answered with success
hookInitiated ==
    /\ paymentState.status \in {"idle", "failed"}
    /\ \E p \in Procs : /\ pc[p] = "done"
                        /\ loc[p].kind = "initiate"
                        /\ loc[p].orderId = ClientOrder
                        /\ resp[p].status = 200
    /\ paymentState' = [status |-> "processing", error |-> Null]
    /\ monitor' = [monitor EXCEPT !.active = TRUE, !.attempts = 0]
    /\ UNCHANGED <<order, ptx, gwPush, pc, loc, resp, nreq, cancelledIds>>
    /\ ServiceUnchanged
    /\ PayloadUnchanged

\* cancelPayment: the button is rendered while the hook is processing; the hook
\* changes its own state and sends nothing to the backend
cancelPayment ==
    /\ paymentState.status = "processing"
    /\ paymentState' = [status |-> "failed", error |-> CancelledByUser]
    /\ cancelledIds' = IF order[ClientOrder].paymentStatus = "PROCESSING"
                          /\ order[ClientOrder].mpesaRequestId # Null
                       THEN cancelledIds \cup {order[ClientOrder].mpesaRequestId}
                       ELSE cancelledIds
    /\ monitor' = [monitor EXCEPT !.active = FALSE]
    /\ UNCHANGED <<order, ptx, gwPush, pc, loc, resp, nreq>>
    /\ ServiceUnchanged
    /\ PayloadUnchanged

\* resetPayment: the interval is cleared and the hook state set back to idle
resetPayment ==
    /\ paymentState.status # "idle"
    /\ paymentState' = [status |-> "idle", error |-> Null]
    /\ monitor' = [monitor EXCEPT !.active = FALSE]
    /\ UNCHANGED <<order, ptx, gwPush, pc, loc, resp, nreq, cancelledIds>>
    /\ ServiceUnchanged
    /\ PayloadUnchanged

PaymentTimeout == "Payment timeout. Please check your phone and try again."
PaymentDeclined == "Payment was declined or failed"

\* the end of the interval callback: after maxAttempts the interval is cleared and the
\* hook state set to failed; nothing is sent to the backend
TimeoutCheck(state, mon) ==
    IF mon.attempts >= MaxAttempts
    THEN <<[status |-> "failed", error |-> PaymentTimeout], [mon EXCEPT !.active = FALSE]>>
    ELSE <<state, mon>>

\* the interval callback fires on an odd attempt: no status request
monitorTick ==
    /\ monitor.active
    /\ monitor.attempts < MaxAttempts
    /\ (monitor.attempts + 1) % 2 # 0
    /\ LET r == TimeoutCheck(paymentState, [monitor EXCEPT !.attempts = @ + 1])
       IN /\ paymentState' = r[1]
          /\ monitor' = r[2]
    /\ UNCHANGED <<order, ptx, gwPush, pc, loc, resp, nreq, cancelledIds>>
    /\ ServiceUnchanged
    /\ PayloadUnchanged

\* the interval callback fires on an even attempt: it sends a status request for the
\* page's order and awaits the response
monitorPoll(p) ==
    /\ monitor.active
    /\ monitor.attempts < MaxAttempts
    /\ (monitor.attempts + 1) % 2 = 0
    /\ PollRequest(p, ClientOrder)
    /\ monitor' = [monitor EXCEPT !.attempts = @ + 1, !.waiting = @ \cup {p}]
    /\ UNCHANGED <<paymentState, cancelledIds>>
    /\ ServiceUnchanged
    /\ PayloadUnchanged

\* the hook state the rest of the callback sets once the status response has arrived;
\* an error response throws into the catch block, which only logs
AfterStatus(r, state) ==
    IF r.status # 200 THEN state
    ELSE IF r.paymentStatus = "COMPLETED" THEN [status |-> "success", error |-> Null]
    ELSE IF r.paymentStatus = "FAILED" THEN [status |-> "failed", error |-> PaymentDeclined]
    ELSE state

\* the awaited status response arrives and the callback runs to its end
monitorResponse(p) ==
    /\ p \in monitor.waiting
    /\ pc[p] = "done"
    /\ LET state == AfterStatus(resp[p], paymentState)
           mon == [monitor EXCEPT !.waiting = @ \ {p},
                                  !.active = IF state # paymentState THEN FALSE ELSE @]
           r == IF resp[p].status # 200 THEN <<state, mon>> ELSE TimeoutCheck(state, mon)
       IN /\ paymentState' = r[1]
          /\ monitor' = r[2]
    /\ pc' = [pc EXCEPT ![p] = "idle"]
    /\ loc' = [loc EXCEPT ![p] = NoLoc]
    /\ resp' = [resp EXCEPT ![p] = NoResp]
    /\ UNCHANGED <<order, ptx, gwPush, nreq, cancelledIds>>
    /\ ServiceUnchanged
    /\ PayloadUnchanged

----------------------------------------------------------------------------
\* the response has been sent; the handler slot is free again
Finish(p) ==
    /\ pc[p] = "done"
    /\ p \notin monitor.waiting
    /\ pc' = [pc EXCEPT ![p] = "idle"]
    /\ loc' = [loc EXCEPT ![p] = NoLoc]
    /\ resp' = [resp EXCEPT ![p] = NoResp]
    /\ UNCHANGED <<order, ptx, gwPush, nreq>>
    /\ ClientUnchanged
    /\ ServiceUnchanged
    /\ PayloadUnchanged

Next ==
    \/ \E p \in Procs, oid \in Orders \cup {UnknownOrder} : InitFind(p, oid)
    \/ \E p \in Procs : InitMark(p)
    \/ \E p \in Procs : InitStk(p)
    \/ \E p \in Procs : InitRevert(p)
    \/ \E p \in Procs : InitStamp(p)
    \/ \E p \in Procs : InitCreate(p)
    \/ \E p \in Procs : InitThrow(p)
    \/ \E p \in Procs, payload \in Payloads : CbReceive(p, payload)
    \/ \E p \in Procs : CbFind(p)
    \/ \E p \in Procs : CbTx(p)
    \/ \E p \in Procs : CbThrow(p)
    \/ \E p \in Procs, oid \in Orders \cup {UnknownOrder} : PollFind(p, oid)
    \/ \E p \in Procs : PollQuery(p)
    \/ \E p \in Procs : PollWrite(p)
    \/ \E p \in Procs : PollRead(p)
    \/ \E p \in Procs : PollThrow(p)
    \/ hookInitiated
    \/ cancelPayment
    \/ \E p \in Procs : Finish(p)

Spec == Init /\ [][Next]_vars

\* the payment page of ClientOrder on its own: the user's initiate-payment requests and
\* the monitor's status requests are the only requests, and no callback is delivered
NextMonitor ==
    \/ \E p \in Procs : InitFind(p, ClientOrder)
    \/ \E p \in Procs : InitMark(p)
    \/ \E p \in Procs : InitStk(p)
    \/ \E p \in Procs : InitRevert(p)
    \/ \E p \in Procs : InitStamp(p)
    \/ \E p \in Procs : InitCreate(p)
    \/ \E p \in Procs : InitThrow(p)
    \/ hookInitiated
    \/ monitorTick
    \/ \E p \in Procs : monitorPoll(p)
    \/ \E p \in Procs : PollQuery(p)
    \/ \E p \in Procs : PollWrite(p)
    \/ \E p \in Procs : PollRead(p)
    \/ \E p \in Procs : PollThrow(p)
    \/ \E p \in Procs : monitorResponse(p)
    \/ cancelPayment
    \/ resetPayment
    \/ \E p \in Procs : Finish(p)

SpecMonitor == Init /\ [][NextMonitor]_vars

\* the backend of one order with a status poller and no callback delivery
NextPoller ==
    \/ \E p \in Procs : InitFind(p, ClientOrder)
    \/ \E p \in Procs : InitMark(p)
    \/ \E p \in Procs : InitStk(p)
    \/ \E p \in Procs : InitRevert(p)
    \/ \E p \in Procs : InitStamp(p)
    \/ \E p \in Procs : InitCreate(p)
    \/ \E p \in Procs : InitThrow(p)
    \/ \E p \in Procs : PollerFind(p, ClientOrder)
    \/ \E p \in Procs : PollQuery(p)
    \/ \E p \in Procs : PollWrite(p)
    \/ \E p \in Procs : PollRead(p)
    \/ \E p \in Procs : PollThrow(p)
    \/ \E p \in Procs : Finish(p)

\* every handler runs to its end, the poller polls the order again and again, the
\* gateway eventually answers a status query with a decisive code, and the database
\* does not reject the poll's write for ever
PollerFairness ==
    /\ \A p \in Procs : /\ WF_vars(InitMark(p))
                         /\ WF_vars(InitStk(p))
                         /\ WF_vars(InitRevert(p))
                         /\ WF_vars(InitStamp(p))
                         /\ WF_vars(InitCreate(p))
                         /\ WF_vars(PollQuery(p))
                         /\ SF_vars(PollQueryResolved(p))
                         /\ SF_vars(PollWrite(p))
                         /\ WF_vars(PollRead(p))
                         /\ WF_vars(Finish(p))
    /\ SF_vars(\E p \in Procs : PollerFind(p, ClientOrder))

SpecPoller == Init /\ [][NextPoller]_vars /\ PollerFairness

----------------------------------------------------------------------------
(* MpesaService.getAccessToken (backend/src/services/MpesaService.js) *)

\* one hour, the lifetime the service assumes of a token, in units of five minutes
TokenLifetime == 12

\* 55 minutes: the recorded expiry is set this long after the response arrived
ExpiryOffset == 11

Tick ==
    /\ now < MaxClock
    /\ now' = now + 1
    /\ UNCHANGED <<accessToken, tokenExpiry, issued, tk, rq>>
    /\ BackendUnchanged
    /\ PayloadUnchanged
    /\ UNCHANGED <<paymentState, cancelledIds, monitor>>

\* the check at the top: a cached token that is not past its recorded expiry is returned,
\* otherwise the token request is sent
getAccessToken(c) ==
    /\ tk[c].pc = "idle"
    /\ IF accessToken # NoToken /\ tokenExpiry # NoExpiry /\ now < tokenExpiry
       THEN tk' = [tk EXCEPT ![c] = [NoTk EXCEPT !.pc = "done", !.result = accessToken]]
       ELSE tk' = [tk EXCEPT ![c] = [NoTk EXCEPT !.pc = "tok_wait"]]
    /\ UNCHANGED <<accessToken, tokenExpiry, now, issued, rq>>
    /\ BackendUnchanged
    /\ PayloadUnchanged
    /\ UNCHANGED <<paymentState, cancelledIds, monitor>>

\* the gateway issues a token for the request; its lifetime starts now
gatewayIssuesToken(c) ==
    /\ tk[c].pc = "tok_wait"
    /\ Len(issued) < MaxTokens
    /\ issued' = Append(issued, now + TokenLifetime)
    /\ tk' = [tk EXCEPT ![c].pc = "tok_resp", ![c].tok = Len(issued) + 1]
    /\ UNCHANGED <<accessToken, tokenExpiry, now, rq>>
    /\ BackendUnchanged
    /\ PayloadUnchanged
    /\ UNCHANGED <<paymentState, cancelledIds, monitor>>

\* the response arrives: the token is cached with an expiry counted from this moment
tokenResponse(c) ==
    /\ tk[c].pc = "tok_resp"
    /\ accessToken' = tk[c].tok
    /\ tokenExpiry' = now + ExpiryOffset
    /\ tk' = [tk EXCEPT ![c].pc = "done", ![c].result = tk[c].tok]
    /\ UNCHANGED <<now, issued, rq>>
    /\ BackendUnchanged
    /\ PayloadUnchanged
    /\ UNCHANGED <<paymentState, cancelledIds, monitor>>

\* the request fails or its response is lost: the catch block throws
tokenError(c) ==
    /\ tk[c].pc \in {"tok_wait", "tok_resp"}
    /\ tk' = [tk EXCEPT ![c].pc = "done", ![c].threw = TRUE]
    /\ UNCHANGED <<accessToken, tokenExpiry, now, issued, rq>>
    /\ BackendUnchanged
    /\ PayloadUnchanged
    /\ UNCHANGED <<paymentState, cancelledIds, monitor>>

\* the caller has its token or its error and may call again
tokenReturn(c) ==
    /\ tk[c].pc = "done"
    /\ tk' = [tk EXCEPT ![c] = NoTk]
    /\ UNCHANGED <<accessToken, tokenExpiry, now, issued, rq>>
    /\ BackendUnchanged
    /\ PayloadUnchanged
    /\ UNCHANGED <<paymentState, cancelledIds, monitor>>

NextToken ==
    \/ Tick
    \/ \E c \in Procs : getAccessToken(c)
    \/ \E c \in Procs : gatewayIssuesToken(c)
    \/ \E c \in Procs : tokenResponse(c)
    \/ \E c \in Procs : tokenError(c)
    \/ \E c \in Procs : tokenReturn(c)

SpecToken == Init /\ [][NextToken]_vars

----------------------------------------------------------------------------
(* MpesaService.makeRequest (unnamed/part_008) *)

maxRetries == 3

\* what axios.post ends with: a response status, or an error without a response, which
\* carries a code when the socket failed and no request when the setup failed.  The
\* gateway has accepted the post when it answers 200; when the post was sent and the
\* timeout passed or the response was lost, it may have accepted it or not
Outcomes ==
    { [status |-> 200, code |-> Null, hasRequest |-> TRUE, processed |-> TRUE] }
    \cup { [status |-> st, code |-> Null, hasRequest |-> TRUE, processed |-> FALSE] :
             st \in {400, 401, 429, 500, 503} }
    \cup { [status |-> 0, code |-> "ETIMEDOUT", hasRequest |-> TRUE, processed |-> b] :
             b \in BOOLEAN }
    \cup { [status |-> 0, code |-> Null, hasRequest |-> FALSE, processed |-> FALSE] }

\* variant of isRetryableError that also retries a 429 response
isRetryableError_TooManyRequests(error) ==
    \/ error.code = "ECONNRESET"
    \/ error.code = "ETIMEDOUT"
    \/ error.code = "ECONNABORTED"
    \/ (error.status # 0 /\ error.status >= 429)
    \/ error.status = 0

isRetryableError(error) ==
    \/ error.code = "ECONNRESET"
    \/ error.code = "ETIMEDOUT"
    \/ error.code = "ECONNABORTED"
    \/ (error.status # 0 /\ error.status >= 500)
    \/ error.status = 0

AuthenticationFailed == "Authentication failed. Please check your M-Pesa credentials."

handleApiError(error) ==
    IF error.status # 0
    THEN CASE error.status = 400 -> "Bad request"
           [] error.status = 401 -> AuthenticationFailed
           [] error.status = 403 -> "Access denied. Insufficient permissions."
           [] error.status = 404 -> "M-Pesa API endpoint not found."
           [] error.status = 429 -> "Too many requests. Please try again later."
           [] error.status = 500 -> "M-Pesa service temporarily unavailable. Please try again."
           [] OTHER -> "M-Pesa API error"
    ELSE IF error.hasRequest
         THEN "No response received from M-Pesa. Please check your internet connection."
    ELSE "Request setup failed"

\* Math.pow(2, retryCount), in seconds
RECURSIVE Backoff(_)
Backoff(retryCount) == IF retryCount = 0 THEN 1 ELSE 2 * Backoff(retryCount - 1)

\* initiatePayment or checkPaymentStatus calls makeRequest with the token it holds
makeRequest(c) ==
    /\ rq[c].pc = "idle"
    /\ rq' = [rq EXCEPT ![c] = [NoRq EXCEPT !.pc = "sending"]]
    /\ UNCHANGED <<accessToken, tokenExpiry, now, issued, tk>>
    /\ BackendUnchanged
    /\ PayloadUnchanged
    /\ UNCHANGED <<paymentState, cancelledIds, monitor>>

\* axios.post ends: the data is returned, or the catch block retries or throws
requestEnds(c, outcome) ==
    /\ rq[c].pc = "sending"
    /\ LET r == [rq[c] EXCEPT !.accepted = IF outcome.processed THEN @ + 1 ELSE @]
       IN rq' = [rq EXCEPT ![c] =
                   IF outcome.status = 200
                   THEN [r EXCEPT !.pc = "done", !.lastStatus = 200]
                   ELSE IF r.retryCount < maxRetries /\ isRetryableError(outcome)
                   THEN [r EXCEPT !.pc = "backoff", !.lastStatus = outcome.status,
                                  !.delay = Backoff(r.retryCount)]
                   ELSE [r EXCEPT !.pc = "done", !.lastStatus = outcome.status,
                                  !.error = handleApiError(outcome)]]
    /\ UNCHANGED <<accessToken, tokenExpiry, now, issued, tk>>
    /\ BackendUnchanged
    /\ PayloadUnchanged
    /\ UNCHANGED <<paymentState, cancelledIds, monitor>>

\* the delay is over: makeRequest calls itself with retryCount + 1 and the same token
retryAfterDelay(c) ==
    /\ rq[c].pc = "backoff"
    /\ rq' = [rq EXCEPT ![c].pc = "sending", ![c].retryCount = @ + 1]
    /\ UNCHANGED <<accessToken, tokenExpiry, now, issued, tk>>
    /\ BackendUnchanged
    /\ PayloadUnchanged
    /\ UNCHANGED <<paymentState, cancelledIds, monitor>>

requestReturn(c) ==
    /\ rq[c].pc = "done"
    /\ rq' = [rq EXCEPT ![c] = NoRq]
    /\ UNCHANGED <<accessToken, tokenExpiry, now, issued, tk>>
    /\ BackendUnchanged
    /\ PayloadUnchanged
    /\ UNCHANGED <<paymentState, cancelledIds, monitor>>

NextGateway ==
    \/ \E c \in Procs : makeRequest(c)
    \/ \E c \in Procs, outcome \in Outcomes : requestEnds(c, outcome)
    \/ \E c \in Procs : retryAfterDelay(c)
    \/ \E c \in Procs : requestReturn(c)

SpecGateway == Init /\ [][NextGateway]_vars

----------------------------------------------------------------------------
(* The gateway request a service builds: phone number, Timestamp and Password *)

\* a phone number is the sequence of its characters
Subscribers == { <<"7", "1", "2", "3", "4", "5", "6", "7", "8">>,
                 <<"1", "1", "0", "2", "5", "4", "0", "0", "9">> }

CountryCode == <<"2", "5", "4">>

\* the forms in which a payer writes the number of subscriber s
LocalForm(s) == <<"0">> \o s
CountryCodeForm(s) == CountryCode \o s
PlusForm(s) == <<"+">> \o CountryCode \o s
SpacedForm(s) == <<"+">> \o CountryCode \o <<" ">> \o SubSeq(s, 1, 3) \o <<" ">>
                     \o SubSeq(s, 4, 9)
BareForm(s) == s

PhoneInputs ==
    UNION { {LocalForm(s), CountryCodeForm(s), PlusForm(s), SpacedForm(s), BareForm(s)} :
            s \in Subscribers }

\* String.startsWith and String.substring(n)
StartsWith(str, prefix) ==
    /\ Len(str) >= Len(prefix)
    /\ SubSeq(str, 1, Len(prefix)) = prefix

Substring(str, n) == SubSeq(str, n + 1, Len(str))

\* MpesaService.formatPhoneNumber of the backend service
formatPhoneNumber(phoneNumber) ==
    LET noSpace == SelectSeq(phoneNumber, LAMBDA ch : ch # " ")
        noPlus == IF StartsWith(noSpace, <<"+">>) THEN Substring(noSpace, 1) ELSE noSpace
        formatted == IF StartsWith(noPlus, <<"0">>)
                     THEN CountryCode \o Substring(noPlus, 1)
                     ELSE noPlus
    IN IF StartsWith(formatted, CountryCode) THEN formatted
       ELSE IF Len(formatted) = 9 THEN CountryCode \o formatted
       ELSE formatted

\* phoneNumber.replace(/^\+254/, '254') of initiatePayment in unnamed/part_008
ReplacePlus254(phoneNumber) ==
    IF StartsWith(phoneNumber, <<"+">> \o CountryCode)
    THEN CountryCode \o Substring(phoneNumber, 4)
    ELSE phoneNumber

Shortcode == "174379"
Passkey == "passkey"

PasswordOf(timestamp) == Base64(<<Shortcode, Passkey, timestamp>>)

\* the timestamp the clock reads (yyyyMMddHHmmss), counted in seconds
generateTimestamp == pl.clock

\* a second passes
clockTick ==
    /\ pl.clock < MaxSeconds
    /\ pl' = [pl EXCEPT !.clock = @ + 1]
    /\ UNCHANGED <<accessToken, tokenExpiry, now, issued, tk, rq>>
    /\ BackendUnchanged
    /\ ClientUnchanged

\* initiateStkPush of the backend service: generatePassword reads the clock once and
\* returns the pair, formatPhoneNumber gives PartyA and PhoneNumber
initiateStkPush(phoneNumber) ==
    /\ pl.pc = "idle"
    /\ LET timestamp == generateTimestamp
       IN pl' = [pl EXCEPT !.pc = "sent", !.service = "backend", !.call = "initiate",
                           !.phoneNumber = phoneNumber,
                           !.PartyA = formatPhoneNumber(phoneNumber),
                           !.PhoneNumber = formatPhoneNumber(phoneNumber),
                           !.Timestamp = timestamp,
                           !.Password = PasswordOf(timestamp)]
    /\ UNCHANGED <<accessToken, tokenExpiry, now, issued, tk, rq>>
    /\ BackendUnchanged
    /\ ClientUnchanged

\* checkStkPushStatus of the backend service: the same generatePassword
checkStkPushStatus ==
    /\ pl.pc = "idle"
    /\ LET timestamp == generateTimestamp
       IN pl' = [pl EXCEPT !.pc = "sent", !.service = "backend", !.call = "query",
                           !.Timestamp = timestamp,
                           !.Password = PasswordOf(timestamp)]
    /\ UNCHANGED <<accessToken, tokenExpiry, now, issued, tk, rq>>
    /\ BackendUnchanged
    /\ ClientUnchanged

\* initiatePayment and checkPaymentStatus of unnamed/part_008, and checkPaymentStatus of
\* backend-example/server.js: the Timestamp field is one reading of the clock ...
readTimestamp(service, call, phoneNumber) ==
    /\ pl.pc = "idle"
    /\ pl' = [pl EXCEPT !.pc = "timestamped", !.service = service, !.call = call,
                        !.phoneNumber = phoneNumber,
                        !.Timestamp = generateTimestamp]
    /\ UNCHANGED <<accessToken, tokenExpiry, now, issued, tk, rq>>
    /\ BackendUnchanged
    /\ ClientUnchanged

\* ... and the Password is built from another reading: generatePassword of part_008
\* calls generateTimestamp itself, server.js evaluates new Date() a second time
readPassword ==
    /\ pl.pc = "timestamped"
    /\ LET formattedPhone == IF pl.call = "initiate" THEN ReplacePlus254(pl.phoneNumber)
                             ELSE NoPhone
       IN pl' = [pl EXCEPT !.pc = "sent",
                           !.Password = PasswordOf(generateTimestamp),
                           !.PartyA = formattedPhone,
                           !.PhoneNumber = formattedPhone]
    /\ UNCHANGED <<accessToken, tokenExpiry, now, issued, tk, rq>>
    /\ BackendUnchanged
    /\ ClientUnchanged

\* the request has been posted; the next call builds its own
payloadReturn ==
    /\ pl.pc = "sent"
    /\ pl' = [NoPl EXCEPT !.clock = pl.clock]
    /\ UNCHANGED <<accessToken, tokenExpiry, now, issued, tk, rq>>
    /\ BackendUnchanged
    /\ ClientUnchanged

NextPayload ==
    \/ clockTick
    \/ \E phoneNumber \in PhoneInputs : initiateStkPush(phoneNumber)
    \/ checkStkPushStatus
    \/ \E phoneNumber \in PhoneInputs : readTimestamp("part_008", "initiate", phoneNumber)
    \/ \E service \in {"part_008", "server"} : readTimestamp(service, "query", NoPhone)
    \/ readPassword
    \/ payloadReturn

SpecPayload == Init /\ [][NextPayload]_vars

----------------------------------------------------------------------------
(* Properties *)

Terminal == {"COMPLETED", "FAILED", "CANCELLED"}

\* C1: once a payment attempt (the PaymentTransaction row) is Completed, Failed or
\* Cancelled, no step of any handler changes its status again.
C1_TerminalIsFinal ==
    [][\A o \in Orders : ptx[o].status \in Terminal => ptx'[o].status = ptx[o].status]_vars

\* the callback handler p is about to apply a payload that the matched attempt already
\* records as applied
IsDuplicateDelivery(p) ==
    /\ pc[p] = "cb_tx"
    /\ ptx[loc[p].orderId].callbackData = loc[p].payload

\* C2: the second delivery of a callback payload is acknowledged as success and changes
\* neither the order nor the attempt.
C2_DuplicateIsNoop ==
    [][\A p \in Procs : (IsDuplicateDelivery(p) /\ CbTx(p)) =>
          /\ order' = order
          /\ ptx' = ptx
          /\ resp'[p] = AckResp(200, 0)]_vars

\* C3: when a callback and a status poll race on one attempt, the second writer finds
\* the attempt no longer Processing and changes nothing: a poll never overwrites a
\* terminal status, and a callback never overwrites the outcome a poll has written.
C3_FirstWriterWins ==
    [][\A p \in Procs :
          /\ (PollWrite(p) /\ order[loc[p].orderId].paymentStatus \in {"COMPLETED", "FAILED"})
               => order'[loc[p].orderId] = order[loc[p].orderId]
          /\ (CbTx(p) /\ order[loc[p].orderId].paymentStatus \in {"COMPLETED", "FAILED"}
                      /\ ptx[loc[p].orderId].status = "PROCESSING")
               => (order' = order /\ ptx' = ptx)]_vars

\* C4: a success callback for an attempt the user cancelled while it was Processing
\* leaves the attempt Cancelled.
C4_CancelPrecedence ==
    [][\A p \in Procs :
          (CbTx(p) /\ loc[p].result.success /\ loc[p].result.merchantRequestId \in cancelledIds)
             => /\ order'[loc[p].orderId].paymentStatus = "CANCELLED"
                /\ ptx'[loc[p].orderId].status = "CANCELLED"]_vars

\* the initiate handlers of order o that have sent their initiate call to the gateway
\* and are still running
SentInitiate(o) ==
    {p \in Procs : /\ loc[p].kind = "initiate"
                   /\ loc[p].orderId = o
                   /\ pc[p] \in {"init_revert", "init_stamp", "init_create"}}

\* C5: of the initiate-payment requests running for one order, at most one has sent an
\* initiate call to the gateway.
C5_SingleActiveAttempt == \A o \in Orders : Cardinality(SentInitiate(o)) <= 1

\* C6: when an initiate-payment handler whose call the gateway accepted ends, however
\* it ends, the order carries the gateway's correlation ids, so that a callback with
\* that merchant id finds it.
C6_AcceptedIsRecorded ==
    [][\A p \in Procs :
          (loc[p].kind = "initiate" /\ loc[p].stk # 0 /\ pc[p] # "done" /\ pc'[p] = "done")
             => /\ order'[loc[p].orderId].mpesaRequestId = MerchantId(loc[p].stk)
                /\ order'[loc[p].orderId].checkoutRequestId = CheckoutId(loc[p].stk)]_vars

C8_ValidAlwaysAcked ==
    \A p \in Procs : (pc[p] = "done" /\ loc[p].kind = "callback"
                        /\ loc[p].payload.hasBody /\ loc[p].payload.hasStk)
                        => resp[p] = AckResp(200, 0)

Malformed(payload) == ~payload.hasBody \/ ~payload.hasStk

\* C9: a callback whose envelope lacks Body or Body.stkCallback is answered at once with
\* a negative acknowledgement, and no order and no payment transaction changes.
C9_MalformedRejected ==
    [][\A p \in Procs :
          (pc[p] = "idle" /\ loc'[p].kind = "callback" /\ Malformed(loc'[p].payload))
             => /\ pc'[p] = "done"
                /\ resp'[p].status >= 400
                /\ resp'[p].ResultCode # 0
                /\ order' = order
                /\ ptx' = ptx]_vars

C9_Witness ==
    \E p \in Procs : /\ pc[p] = "done"
                     /\ loc[p].kind = "callback"
                     /\ loc[p].payload.hasBody
                     /\ ~loc[p].payload.hasStk
                     /\ resp[p] = AckResp(400, 1)
                     /\ \E o \in Orders : order[o].paymentStatus = "PROCESSING"

\* the receipt a success callback carries: the value of the item named TransactionID or
\* MpesaReceiptNumber
RECURSIVE ReceiptOf(_)
ReceiptOf(items) ==
    IF items = << >> THEN Null
    ELSE IF Head(items).Name \in {"TransactionID", "MpesaReceiptNumber"} THEN Head(items).Value
    ELSE ReceiptOf(Tail(items))

\* C10: a callback applied to an attempt still Processing makes it Completed with the
\* receipt stamped when ResultCode is 0, and Failed with ResultDesc stored otherwise.
C10_CallbackOutcome ==
    [][\A p \in Procs :
          LET o == loc[p].orderId
              stk == loc[p].payload.stk
          IN (CbTx(p) /\ loc[p].hadTx /\ ptx[o].status = "PROCESSING"
                      /\ ~CbTxRejected(o, loc[p].hadTx, loc[p].payload, loc[p].result))
               => IF stk.ResultCode = 0
                  THEN /\ ptx'[o].status = "COMPLETED"
                       /\ ptx'[o].transactionId = ReceiptOf(stk.Item)
                  ELSE /\ ptx'[o].status = "FAILED"
                       /\ ptx'[o].resultDesc = stk.ResultDesc]_vars

\* C11: once an attempt is Completed, its transaction receipt identifier never changes,
\* whatever callback, status poll or initiate-payment runs later.
C11_ReceiptImmutable ==
    [][\A o \in Orders : ptx[o].status = "COMPLETED"
                            => ptx'[o].transactionId = ptx[o].transactionId]_vars

\* C12: a status poll whose query the gateway answered leaves the attempt Processing on
\* the code 1032, decides Completed on the success code, and Failed on every other code.
C12_PollOutcome ==
    [][\A p \in Procs :
          (pc[p] = "poll_query" /\ loc'[p].queryCode # NoQueryCode)
             => LET c == loc'[p].queryCode.num
                IN IF c = ResultCodeAwaiting THEN pc'[p] = "poll_read"
                   ELSE /\ pc'[p] = "poll_write"
                        /\ loc'[p].newStatus = IF c = ResultCodeSuccess THEN "COMPLETED"
                                                ELSE "FAILED"]_vars

\* the hook's monitor gives up: its bounded window has elapsed
TimeoutStep == paymentState.error # PaymentTimeout /\ paymentState'.error = PaymentTimeout

\* C13: when the monitor's bounded window elapses and the backend has learnt no outcome
\* of the attempt, the attempt becomes Failed with the reason timeout, and an
\* initiate-payment for the same order that follows is accepted.
C13_TimeoutFailsAttempt ==
    [][/\ (TimeoutStep /\ order[ClientOrder].paymentStatus = "PROCESSING")
            => /\ order'[ClientOrder].paymentStatus = "FAILED"
               /\ ptx'[ClientOrder].status = "FAILED"
               /\ ptx'[ClientOrder].resultDesc = PaymentTimeout
       /\ \A p \in Procs :
            (paymentState.error = PaymentTimeout /\ InitFind(p, ClientOrder))
               => pc'[p] = "init_mark"]_vars

\* the PaymentTransaction rows stored for order o
TxRows(o) == IF HasTx(o) THEN {ptx[o]} ELSE {}

\* C14: after an attempt became Failed, a new initiate-payment that the gateway accepts
\* answers with success and has created a new attempt record carrying the fresh
\* correlation id, while the failed attempt's record is still stored unchanged.
C14_RetryCreatesNewAttempt ==
    [][\A p \in Procs :
          LET o == loc[p].orderId
          IN (InitCreate(p) /\ ptx[o].status = "FAILED")
               => /\ resp'[p].status = 200
                  /\ ptx[o] \in TxRows(o)'
                  /\ \E r \in TxRows(o)' : /\ r.status = "PROCESSING"
                                            /\ r.mpesaRequestId = MerchantId(loc[p].stk)]_vars

\* the attempt with merchant id mid failed and the order has since been stamped with the
\* merchant id of a newer accepted attempt
Superseded(o, mid) ==
    /\ ptx[o].status = "FAILED"
    /\ ptx[o].mpesaRequestId = mid
    /\ order[o].mpesaRequestId \notin {mid, Null}

\* C15: once a new attempt has superseded a failed attempt of an order, a callback that
\* carries the failed attempt's merchant id changes neither the order nor any attempt.
C15_RetiredIdIsInert ==
    [][\A p \in Procs :
          (CbTx(p) /\ Superseded(loc[p].orderId, loc[p].result.merchantRequestId))
             => (order' = order /\ ptx' = ptx)]_vars

C17_ProcessingResolves ==
    \A o \in Orders : (ptx[o].status = "PROCESSING") ~> (ptx[o].status \in Terminal)

\* the callers whose token request is outstanding
TokenRequests == {c \in Procs : tk[c].pc \in {"tok_wait", "tok_resp"}}

\* C18: of the callers that invoke getToken while the cache is empty or expired, only
\* one has a token request outstanding: the others wait for its result.
C18_SingleFlight == Cardinality(TokenRequests) <= 1

\* C19: getToken sends a token request only when the cache is empty or past its recorded
\* expiry and otherwise returns the cached token; the recorded expiry is earlier than
\* the actual expiry of the cached token, so no token is returned that has expired; a
\* failed token request leaves the cached token and its expiry unchanged.
C19_TokenCache ==
    [][/\ \A c \in Procs :
            /\ (tk[c].pc = "idle" /\ tk'[c].pc = "tok_wait")
                  => (accessToken = NoToken \/ now >= tokenExpiry)
            /\ (tk[c].pc = "idle" /\ tk'[c].pc = "done")
                  => (tk'[c].result = accessToken /\ accessToken # NoToken)
            /\ (tk[c].pc # "done" /\ tk'[c].pc = "done" /\ ~tk'[c].threw)
                  => now < issued[tk'[c].result]
            /\ (tk[c].pc # "done" /\ tk'[c].pc = "done" /\ tk'[c].threw)
                  => (accessToken' = accessToken /\ tokenExpiry' = tokenExpiry)
       /\ accessToken' # NoToken => tokenExpiry' < issued'[accessToken']]_vars

\* C20: when a call gets its first 401 from the gateway, the client does not give up: it
\* refetches the token and retries once; only a second 401 ends the call with an
\* authentication failure.
C20_RetryOnceOn401 ==
    [][\A c \in Procs :
          (rq[c].pc = "sending" /\ rq[c].lastStatus # 401 /\ rq'[c].lastStatus = 401)
             => rq'[c].pc # "done"]_vars

WrittenForms(s) == {LocalForm(s), CountryCodeForm(s), PlusForm(s)}

\* C22: in every initiate call, whichever of the forms 0XXXXXXXXX, 254XXXXXXXXX and
\* +254XXXXXXXXX the payer's number was given in, PartyA and PhoneNumber of the request
\* are the subscriber's 254XXXXXXXXX form.
C22_SameCountryCodeForm ==
    \A s \in Subscribers :
        (pl.pc = "sent" /\ pl.call = "initiate" /\ pl.phoneNumber \in WrittenForms(s))
            => (pl.PartyA = CountryCodeForm(s) /\ pl.PhoneNumber = CountryCodeForm(s))

\* the status request of handler p got no answer from the gateway's query
QueryFailed(p) == loc[p].kind = "poll" /\ loc[p].query = "failed"

\* C23: a status query that fails is inconclusive: from the failure to its response the
\* status handler writes neither the order nor the payment transaction, and when the
\* monitor receives the response (still Processing, or an error) it leaves the payment
\* state processing and keeps its interval running, unless its attempts are used up.
C23_FailedQueryInconclusive ==
    [][\A p \in Procs :
          /\ (loc'[p].kind = "poll" /\ loc'[p].query = "failed" /\ pc'[p] # pc[p])
                => (order' = order /\ ptx' = ptx)
          /\ (QueryFailed(p) /\ p \in monitor.waiting /\ p \notin monitor'.waiting
                /\ (resp[p].status # 200 \/ resp[p].paymentStatus = "PROCESSING"))
                => \/ /\ paymentState' = paymentState
                      /\ monitor'.active = monitor.active
                      /\ monitor'.attempts = monitor.attempts
                   \/ /\ monitor.attempts >= MaxAttempts
                      /\ resp[p].status = 200
                      /\ paymentState' = [status |-> "failed", error |-> PaymentTimeout]
                      /\ ~monitor'.active]_vars

\* a failed query has been answered to the monitor with the order still Processing, and
\* the monitor is still running
C23_Witness ==
    \E p \in Procs :
        /\ QueryFailed(p)
        /\ p \in monitor.waiting
        /\ pc[p] = "done"
        /\ resp[p] = StatusResp("PROCESSING")
        /\ order[ClientOrder].paymentStatus = "PROCESSING"
        /\ ptx[ClientOrder].status = "PROCESSING"
        /\ paymentState.status = "processing"
        /\ monitor.active

\* C24: in every request sent to the gateway, by an initiate or by a status query, the
\* Password is base64(shortcode || passkey || T) for the T sent as Timestamp in the same
\* request, also when the clock advances while the request is being built.
C24_PasswordMatchesTimestamp ==
    pl.pc = "sent" => pl.Password = PasswordOf(pl.Timestamp)

\* the orders whose row or whose payment transaction the step changes
ChangedOrders == {o \in Orders : order'[o] # order[o] \/ ptx'[o] # ptx[o]}

\* C25: a callback changes at most one order, and only the order whose stored merchant
\* request id equals the callback's MerchantRequestID; a callback without a
\* MerchantRequestID changes no order and no payment transaction.
C25_CallbackChangesOwnOrderOnly ==
    [][\A p \in Procs :
          (loc[p].kind = "callback" /\ pc[p] = "cb_tx" /\ pc'[p] # pc[p])
            => /\ Cardinality(ChangedOrders) <= 1
               /\ \A o \in ChangedOrders :
                     /\ loc[p].payload.stk.MerchantRequestID # Undefined
                     /\ order[o].mpesaRequestId = loc[p].payload.stk.MerchantRequestID]_vars

\* a handler is between its first and its last step on order o (a callback that has not
\* yet looked its order up counts for every order)
InProgress(o) ==
    \E p \in Procs : /\ pc[p] \notin {"idle", "done"}
                      /\ loc[p].orderId \in {o, Null}

\* C26: whenever an order has a payment transaction and no payment operation on the
\* order is in progress, the order's paymentStatus is the payment transaction's status
\* and both rows carry the same merchant and checkout request ids.
C26_OrderAgreesWithTransaction ==
    \A o \in Orders :
        (HasTx(o) /\ ~InProgress(o))
          => /\ order[o].paymentStatus = ptx[o].status
             /\ order[o].mpesaRequestId = ptx[o].mpesaRequestId
             /\ order[o].checkoutRequestId = ptx[o].checkoutRequestId

\* C27: when initiate-payment answers with an error after it marked the order Processing
\* (the gateway rejected the push, or a later database call threw), the order is not
\* left Processing.
C27_ErrorLeavesOrderRetryable ==
    [][\A p \in Procs :
          (/\ loc[p].kind = "initiate"
           /\ pc[p] \in {"init_revert", "init_stamp", "init_create"}
           /\ pc'[p] = "done"
           /\ resp'[p].status # 200)
            => order'[loc[p].orderId].paymentStatus # "PROCESSING"]_vars

\* C28: one call that posts an initiate request has at most one STK push accepted by the
\* gateway, also when a post times out or its response is lost after the gateway
\* processed it.
C28_AtMostOneAcceptedPush ==
    \A c \in Procs : rq[c].accepted <= 1

\* C29: when the monitor receives a status response that reports the payment completed,
\* the payment state becomes success, and a payment state that is success is never set
\* to failed afterwards.
C29_SuccessIsFinal ==
    [][/\ \A p \in Procs :
             (p \in monitor.waiting /\ p \notin monitor'.waiting
                /\ resp[p] = StatusResp("COMPLETED"))
               => paymentState'.status = "success"
       /\ paymentState.status = "success" => paymentState'.status # "failed"]_vars

\* cancelPayment or resetPayment has returned and no new attempt has been started
Stopped == paymentState.status = "idle" \/ paymentState.error = CancelledByUser

\* C30: cancelPayment and resetPayment stop the monitor's timer, and after they have
\* returned neither a tick of the timer nor the response of a status check that was in
\* flight changes the payment state.
C30_StoppedMonitorIsSilent ==
    [][/\ (Stopped' /\ paymentState' # paymentState) => ~monitor'.active
       /\ Stopped => monitor'.attempts <= monitor.attempts
       /\ (Stopped /\ \E p \in Procs : p \in monitor.waiting /\ p \notin monitor'.waiting)
            => paymentState' = paymentState]_vars

============================================================================
